---- MODULE Spec2Model ----
(***************************************************************************)
(* Model of the stub searcher (package stuber): a two-level index of stubs *)
(* by service and method, a flat identifier map, and the set of stubs that *)
(* were returned to a non-internal query.                                  *)
(***************************************************************************)
EXTENDS Integers, Sequences, FiniteSets, TLC

\* ------------------------------------------------------------------ bounds
\* Number of distinct stub identifiers.
NumIds == 2
\* Scores are the multiples k / MaxRank of the unit interval, k in 0..MaxRank.
MaxRank == 2
\* Longest argument list of a variadic upsert or del call.
MaxBatch == 2

Ids == 1 .. NumIds
NoId == 0
Services == {"s1", "s2"}
Methods == {"m1", "m2"}
Ranks == 0 .. MaxRank

\* ------------------------------------------------------------------ values
\* A stub, reduced to what the searcher reads of it: its key and coordinates.
Stub == [id : Ids, service : Services, method : Methods]
\* The nil *Stub.
NilStub == [id |-> NoId, service |-> "-", method |-> "-"]

\* A query: coordinates, optional explicit identifier (NoId is a nil ID),
\* and the RequestInternal flag.
Query == [service : Services, method : Methods, id : Ids \cup {NoId}, internal : BOOLEAN]
NoQuery == [service |-> "-", method |-> "-", id |-> NoId, internal |-> FALSE]

\* Public errors of the searcher.
ErrServiceNotFound == "service not found"
ErrMethodNotFound == "method not found"
ErrStubNotFound == "stub not found"
\* Internal errors of the storage.
ErrLeftNotFound == "left not found"
ErrRightNotFound == "right not found"
NoErr == "nil"

\* ------------------------------------------------------------------ storage
\* The storage: a flat map from identifier to stub (items) and a two-level
\* map service -> method -> set of identifiers (tree).  Empty method buckets
\* and services without methods are pruned.
newStorage == [items |-> << >>, tree |-> << >>]

Put(f, k, v) == [x \in (DOMAIN f) \cup {k} |-> IF x = k THEN v ELSE f[x]]
Drop(f, k) == [x \in (DOMAIN f) \ {k} |-> f[x]]

\* Remove id from the bucket (s, m), pruning what becomes empty.
unfile(tree, id, s, m) ==
  IF s \notin DOMAIN tree THEN tree
  ELSE IF m \notin DOMAIN tree[s] THEN tree
  ELSE LET bucket == tree[s][m] \ {id}
           methods == IF bucket = {} THEN Drop(tree[s], m) ELSE Put(tree[s], m, bucket)
       IN IF DOMAIN methods = {} THEN Drop(tree, s) ELSE Put(tree, s, methods)

\* Add id to the bucket (s, m), creating the levels that are missing.
file(tree, id, s, m) ==
  LET methods == IF s \in DOMAIN tree THEN tree[s] ELSE << >>
      bucket == IF m \in DOMAIN methods THEN methods[m] ELSE {}
  IN Put(tree, s, Put(methods, m, bucket \cup {id}))

\* Fault variant of storage_upsertOne: a stub whose coordinates changed
\* stays in its old bucket.
storage_upsertOne_keepOld(st, v) ==
  [items |-> Put(st.items, v.id, v), tree |-> file(st.tree, v.id, v.service, v.method)]

\* Insert or replace one stub; a stub whose coordinates changed leaves its
\* old bucket.
storage_upsertOne(st, v) ==
  LET t0 == IF v.id \in DOMAIN st.items
            THEN unfile(st.tree, v.id, st.items[v.id].service, st.items[v.id].method)
            ELSE st.tree
  IN [items |-> Put(st.items, v.id, v), tree |-> file(t0, v.id, v.service, v.method)]

RECURSIVE storage_upsert(_, _)
storage_upsert(st, values) ==
  IF values = << >> THEN st
  ELSE storage_upsert(storage_upsertOne(st, Head(values)), Tail(values))

\* Remove one identifier; an absent one is ignored.
\* Fault variant of storage_delOne: the whole bucket of the stub goes with it.
storage_delOne_bucket(st, id) ==
  IF id \notin DOMAIN st.items THEN st
  ELSE LET s == st.items[id].service
           m == st.items[id].method
           gone == st.tree[s][m]
           methods == Drop(st.tree[s], m)
       IN [items |-> [x \in (DOMAIN st.items) \ gone |-> st.items[x]],
           tree |-> IF DOMAIN methods = {} THEN Drop(st.tree, s) ELSE Put(st.tree, s, methods)]

storage_delOne(st, id) ==
  IF id \notin DOMAIN st.items THEN st
  ELSE [items |-> Drop(st.items, id),
        tree |-> unfile(st.tree, id, st.items[id].service, st.items[id].method)]

RECURSIVE storage_del(_, _)
storage_del(st, ids) ==
  IF ids = << >> THEN st
  ELSE storage_del(storage_delOne(st, Head(ids)), Tail(ids))

\* Number of identifiers a del call actually removes.
RECURSIVE storage_delCount(_, _)
storage_delCount(st, ids) ==
  IF ids = << >> THEN 0
  ELSE (IF Head(ids) \in DOMAIN st.items THEN 1 ELSE 0)
       + storage_delCount(storage_delOne(st, Head(ids)), Tail(ids))

storage_findByID(st, id) == IF id \in DOMAIN st.items THEN st.items[id] ELSE NilStub

\* Absent identifiers are skipped.
storage_findByIDs(st, ids) == {st.items[i] : i \in ids \cap DOMAIN st.items}

\* Existence probe of a coordinate pair.
storage_posByN(st, s, m) ==
  IF s \notin DOMAIN st.tree THEN ErrLeftNotFound
  ELSE IF m \notin DOMAIN st.tree[s] THEN ErrRightNotFound
  ELSE NoErr

\* The stubs of a bucket, or the error of the level that is absent.
storage_findAll(st, s, m) ==
  LET err == storage_posByN(st, s, m)
  IN [values |-> IF err = NoErr THEN {storage_findByID(st, i) : i \in st.tree[s][m]} ELSE {},
      err |-> err]

storage_values(st) == {st.items[i] : i \in DOMAIN st.items}

storage_clear(st) == newStorage

\* ------------------------------------------------------------------ searcher
VARIABLES
  storage,   \* searcher.storage
  stubUsed,  \* searcher.stubUsed: identifiers marked as used
  ret,       \* the call the caller is returning from: its name, arguments
             \* and what it returned; NoCall between two calls
  th,        \* per goroutine: where it stands in the call it is making, and
             \* the locals of that call
  mu,        \* searcher.mu: the writer holding it and the readers holding it
  imu,       \* the lock of the storage: the goroutine holding it
  fresh,     \* history: identifiers a non-internal find matched strictly
             \* since the last clear returned
  marked,    \* history: identifiers a non-internal find inserted into
             \* stubUsed since the last clear emptied it
  last       \* history: per identifier, the stub its last upsert stored, or
             \* NilStub after its last del

vars == <<storage, stubUsed, ret>>
cvars == <<th, mu, imu, fresh, marked, last>>
allvars == <<storage, stubUsed, ret, th, mu, imu, fresh, marked, last>>

\* A call record with nothing in it; every call fills in its own fields.
\*   query      the Query of a find; the coordinates of a findBy
\*   hasResult  the *Result returned is not nil
\*   found      Result.found, or the stub findByID returned
\*   similar    Result.similar
\*   err        the error returned
\*   scan       the candidates of a search in the order the loop visited them,
\*              each with the values rankMatch and match gave for it
\*   out        identifiers of the stubs a listing call returned (for clear:
\*              of the stubs it discarded)
\*   keys       identifiers passed to del or findByID, or returned by upsert
\*   count      the number del returned
\*   values     the stubs passed to upsert
\*   dropped    the stubs that were stored before the call and are not after
NoCall ==
  [op |-> "none", query |-> NoQuery, hasResult |-> FALSE, found |-> NilStub,
   similar |-> NilStub, err |-> NoErr, scan |-> << >>, out |-> {}, keys |-> << >>,
   count |-> 0, values |-> << >>, dropped |-> {}]

IdsOf(stubs) == {v.id : v \in stubs}

\* Fault variant of wrap: the storage's errors pass through untranslated.
wrap_passthrough(err) == err

\* Fault variant of wrap: both errors of the storage become ServiceNotFound.
wrap_collapse(err) ==
  IF err \in {ErrLeftNotFound, ErrRightNotFound} THEN ErrServiceNotFound ELSE err

wrap(err) ==
  IF err = ErrLeftNotFound THEN ErrServiceNotFound
  ELSE IF err = ErrRightNotFound THEN ErrMethodNotFound
  ELSE err

findByID(st, id) == storage_findByID(st, id)

\* Fault variant of findBy: an existing pair yields every stub of the storage.
findBy_all(st, service, method) ==
  LET r == storage_findAll(st, service, method)
  IN IF r.err # NoErr THEN [stubs |-> {}, err |-> wrap(r.err)]
     ELSE [stubs |-> storage_values(st), err |-> NoErr]

findBy(st, service, method) ==
  LET r == storage_findAll(st, service, method)
  IN IF r.err # NoErr THEN [stubs |-> {}, err |-> wrap(r.err)]
     ELSE [stubs |-> r.values, err |-> NoErr]

\* Fault variants of clear: one forgets the storage, one the usage set.
clear_usageOnly(u, st) == [stubUsed |-> {}, storage |-> st]
clear_storageOnly(u, st) == [stubUsed |-> u, storage |-> storage_clear(st)]

clear(u, st) == [stubUsed |-> {}, storage |-> storage_clear(st)]

all(st) == storage_values(st)

\* Fault variant of used: a marked identifier that is no longer stored is
\* reported all the same.
used_marked(u, st) ==
  {IF i \in DOMAIN st.items THEN st.items[i] ELSE [id |-> i, service |-> "-", method |-> "-"] :
     i \in u}

used(u, st) == storage_findByIDs(st, u)

unused(u, st) == {stub \in all(st) : stub.id \notin u}

\* Fault variants of mark: one never marks, one ignores the internal flag.
mark_never(u, query, id) == u
mark_always(u, query, id) == u \cup {id}

mark(u, query, id) == IF query.internal THEN u ELSE u \cup {id}

\* Fault variant of searchStep: the most similar stub is replaced on a tie.
searchStep_lastTie(acc, c) ==
  LET a == IF c.rank >= acc.similarRank
           THEN [acc EXCEPT !.similar = c.stub, !.similarRank = c.rank]
           ELSE acc
  IN IF c.match /\ c.rank > a.foundRank
     THEN [a EXCEPT !.found = c.stub, !.foundRank = c.rank]
     ELSE a

\* One iteration of the loop of search over candidate c.
searchStep(acc, c) ==
  LET a == IF c.rank > acc.similarRank
           THEN [acc EXCEPT !.similar = c.stub, !.similarRank = c.rank]
           ELSE acc
  IN IF c.match /\ c.rank > a.foundRank
     THEN [a EXCEPT !.found = c.stub, !.foundRank = c.rank]
     ELSE a

RECURSIVE searchLoop(_, _)
searchLoop(acc, cands) ==
  IF cands = << >> THEN acc
  ELSE searchLoop(searchStep(acc, Head(cands)), Tail(cands))

Failure(u, err) ==
  [hasResult |-> FALSE, found |-> NilStub, similar |-> NilStub, err |-> err, stubUsed |-> u]

\* Fault variant of searchResult: the most similar stub is returned next to
\* the strict match.
searchResult_both(u, query, acc) ==
  IF acc.found # NilStub
  THEN [hasResult |-> TRUE, found |-> acc.found, similar |-> acc.similar, err |-> NoErr,
        stubUsed |-> mark(u, query, acc.found.id)]
  ELSE IF acc.similar = NilStub THEN Failure(u, ErrStubNotFound)
  ELSE [hasResult |-> TRUE, found |-> NilStub, similar |-> acc.similar, err |-> NoErr,
        stubUsed |-> u]

\* The end of search, after the loop: the strict match if there is one
\* (marked as used), else the most similar stub, else ErrStubNotFound.
searchResult(u, query, acc) ==
  IF acc.found # NilStub
  THEN [hasResult |-> TRUE, found |-> acc.found, similar |-> NilStub, err |-> NoErr,
        stubUsed |-> mark(u, query, acc.found.id)]
  ELSE IF acc.similar = NilStub THEN Failure(u, ErrStubNotFound)
  ELSE [hasResult |-> TRUE, found |-> NilStub, similar |-> acc.similar, err |-> NoErr,
        stubUsed |-> u]

\* search: cands is the slice findBy returned, in its order, with the
\* rankMatch and match value of each stub.
search(st, u, query, cands) ==
  LET fb == findBy(st, query.service, query.method)
  IN IF fb.err # NoErr THEN Failure(u, wrap(fb.err))
     ELSE searchResult(u, query,
                       searchLoop([found |-> NilStub, foundRank |-> 0,
                                   similar |-> NilStub, similarRank |-> 0], cands))

\* Fault variants of searchByID: the first reports an identifier that is not
\* stored as a missing stub, the second looks the identifier up before it
\* validates the coordinates.
searchByID_stubNotFound(st, u, service, method, query) ==
  LET err == storage_posByN(st, service, method)
      found == findByID(st, query.id)
  IN IF err # NoErr THEN Failure(u, wrap(err))
     ELSE IF found # NilStub
     THEN [hasResult |-> TRUE, found |-> found, similar |-> NilStub, err |-> NoErr,
           stubUsed |-> mark(u, query, query.id)]
     ELSE Failure(u, ErrStubNotFound)
searchByID_lookupFirst(st, u, service, method, query) ==
  LET err == storage_posByN(st, service, method)
      found == findByID(st, query.id)
  IN IF found # NilStub
     THEN [hasResult |-> TRUE, found |-> found, similar |-> NilStub, err |-> NoErr,
           stubUsed |-> mark(u, query, query.id)]
     ELSE IF err # NoErr THEN Failure(u, wrap(err))
     ELSE Failure(u, ErrServiceNotFound)

searchByID(st, u, service, method, query) ==
  LET err == storage_posByN(st, service, method)
      found == findByID(st, query.id)
  IN IF err # NoErr THEN Failure(u, wrap(err))
     ELSE IF found # NilStub
     THEN [hasResult |-> TRUE, found |-> found, similar |-> NilStub, err |-> NoErr,
           stubUsed |-> mark(u, query, query.id)]
     ELSE Failure(u, ErrServiceNotFound)

find(st, u, query, cands) ==
  IF query.id # NoId THEN searchByID(st, u, query.service, query.method, query)
  ELSE search(st, u, query, cands)

\* ------------------------------------------------------------------ inputs
\* Argument lists of a variadic call.
Batches(S) == UNION {[1 .. n -> S] : n \in 0 .. MaxBatch}

Perms(S) == {p \in [1 .. Cardinality(S) -> S] : \A i, j \in 1 .. Cardinality(S) : p[i] = p[j] => i = j}

\* Every order in which a set of stubs can be enumerated, with every value
\* rankMatch and match can give for each stub against the query at hand.
Enumerations(S) ==
  {[i \in 1 .. Cardinality(S) |-> [stub |-> p[i], rank |-> rk[p[i]], match |-> mt[p[i]]]] :
     p \in Perms(S), rk \in [S -> Ranks], mt \in [S -> BOOLEAN]}

\* What the loop of search iterates over for query q: nothing on the
\* explicit-identifier branch.
Candidates(st, q) ==
  IF q.id # NoId THEN {<< >>} ELSE Enumerations(findBy(st, q.service, q.method).stubs)

\* ------------------------------------------------------------------ locks
\* The goroutines calling into one searcher.
Threads == {"g1", "g2"}
NoThread == "-"

\* sync.RWMutex as the searcher uses it: Lock waits until no writer and no
\* reader holds it, RLock until no writer holds it.
Unlocked == [w |-> NoThread, r |-> {}]
CanLock(m) == m.w = NoThread /\ m.r = {}
Lock(m, t) == [m EXCEPT !.w = t]
Unlock_forgotten(m, t) == m
Unlock(m, t) == [m EXCEPT !.w = NoThread]
CanRLock(m) == m.w = NoThread
RLock(m, t) == [m EXCEPT !.r = @ \cup {t}]
RUnlock(m, t) == [m EXCEPT !.r = @ \ {t}]

\* The locals of a goroutine that is not inside a call.
\*   pc        the step it takes next
\*   found     the strict match of its find
\*   internal  query.RequestInternal() of its find
\*   err       the error its find returns
\*   out       identifiers of the stubs its used or unused returns
\*   late      history: its mark inserted the identifier of a stub that was
\*             no longer stored
Idle ==
  [pc |-> "idle", found |-> NilStub, internal |-> FALSE, err |-> NoErr, out |-> {},
   late |-> FALSE]

\* ------------------------------------------------------------------ actions
Init ==
  /\ storage = newStorage
  /\ stubUsed = {}
  /\ ret = NoCall
  /\ th = [t \in Threads |-> Idle]
  /\ mu = Unlocked
  /\ imu = NoThread
  /\ fresh = {}
  /\ marked = {}
  /\ last = [id \in Ids |-> NilStub]

Upsert ==
  /\ ret = NoCall
  /\ \E values \in Batches(Stub) :
    /\ storage' = storage_upsert(storage, values)
    /\ ret' = [NoCall EXCEPT !.op = "upsert",
                             !.keys = [i \in 1 .. Len(values) |-> values[i].id],
                             !.values = values,
                             !.dropped = all(storage) \ all(storage_upsert(storage, values))]
    /\ UNCHANGED stubUsed
    /\ UNCHANGED cvars

Del ==
  /\ ret = NoCall
  /\ \E ids \in Batches(Ids) :
    /\ storage' = storage_del(storage, ids)
    /\ ret' = [NoCall EXCEPT !.op = "del", !.keys = ids,
                             !.count = storage_delCount(storage, ids),
                             !.dropped = all(storage) \ all(storage_del(storage, ids))]
    /\ UNCHANGED stubUsed
    /\ UNCHANGED cvars

FindByID ==
  /\ ret = NoCall
  /\ \E id \in Ids :
    /\ ret' = [NoCall EXCEPT !.op = "findByID", !.keys = <<id>>,
                             !.found = findByID(storage, id)]
    /\ UNCHANGED <<storage, stubUsed>>
    /\ UNCHANGED cvars

FindBy ==
  /\ ret = NoCall
  /\ \E service \in Services, method \in Methods :
    LET r == findBy(storage, service, method)
    IN /\ ret' = [NoCall EXCEPT !.op = "findBy",
                                !.query = [NoQuery EXCEPT !.service = service, !.method = method],
                                !.out = IdsOf(r.stubs), !.err = r.err]
       /\ UNCHANGED <<storage, stubUsed>>
       /\ UNCHANGED cvars

Clear ==
  LET r == clear(stubUsed, storage)
  IN /\ ret = NoCall
     /\ stubUsed' = r.stubUsed
     /\ storage' = r.storage
     /\ ret' = [NoCall EXCEPT !.op = "clear", !.out = IdsOf(all(storage)),
                              !.dropped = all(storage) \ all(r.storage)]
     /\ UNCHANGED cvars

All ==
  /\ ret = NoCall
  /\ ret' = [NoCall EXCEPT !.op = "all", !.out = IdsOf(all(storage))]
  /\ UNCHANGED <<storage, stubUsed>>
  /\ UNCHANGED cvars

Used ==
  /\ ret = NoCall
  /\ ret' = [NoCall EXCEPT !.op = "used", !.out = IdsOf(used(stubUsed, storage))]
  /\ UNCHANGED <<storage, stubUsed>>
  /\ UNCHANGED cvars

Unused ==
  /\ ret = NoCall
  /\ ret' = [NoCall EXCEPT !.op = "unused", !.out = IdsOf(unused(stubUsed, storage))]
  /\ UNCHANGED <<storage, stubUsed>>
  /\ UNCHANGED cvars

Find ==
  /\ ret = NoCall
  /\ \E query \in Query :
    \E cands \in Candidates(storage, query) :
      LET r == find(storage, stubUsed, query, cands)
      IN /\ stubUsed' = r.stubUsed
         /\ ret' = [NoCall EXCEPT !.op = "find", !.query = query,
                                  !.hasResult = r.hasResult, !.found = r.found,
                                  !.similar = r.similar, !.err = r.err, !.scan = cands]
         /\ UNCHANGED storage
         /\ UNCHANGED cvars

\* The caller takes what the call returned and is free to call again.
Return ==
  /\ ret # NoCall
  /\ ret' = NoCall
  /\ UNCHANGED <<storage, stubUsed>>
  /\ UNCHANGED cvars

Next ==
  \/ Upsert
  \/ Del
  \/ FindByID
  \/ FindBy
  \/ Clear
  \/ All
  \/ Used
  \/ Unused
  \/ Find
  \/ Return

Spec == Init /\ [][Next]_allvars

TypeOK ==
  /\ stubUsed \subseteq Ids
  /\ DOMAIN storage.items \subseteq Ids

\* ------------------------------------------------------------------ claims
Range(s) == {s[i] : i \in DOMAIN s}

\* The caller is returning from a find.
IsFind == ret.op = "find"
\* ... from a find that had no explicit identifier.
IsScan == IsFind /\ ret.query.id = NoId
\* Some stub is stored under the service of the last call's query.
ServiceKnown == \E stub \in all(storage) : stub.service = ret.query.service
\* Some stub is stored under the service and method of the last call's query.
PairKnown ==
  \E stub \in all(storage) :
    stub.service = ret.query.service /\ stub.method = ret.query.method

\* C1: a find without explicit identifier whose bucket holds a candidate that
\* strictly matches, whatever its score, succeeds; its strict-match field is
\* a candidate that strictly matches and its closest-candidate field is empty.
C1_StrictMatchReturned ==
  (IsScan /\ \E i \in DOMAIN ret.scan : ret.scan[i].match)
    => /\ ret.err = NoErr
       /\ ret.hasResult
       /\ \E i \in DOMAIN ret.scan : ret.scan[i].match /\ ret.scan[i].stub = ret.found
       /\ ret.similar = NilStub

\* C2: in a bucket of two stubs, R1 not matching with the higher score and R2
\* strictly matching with the lower score, in either order, find without
\* explicit identifier returns R2 as the strict match.
C2_StrictBeatsSimilar ==
  \A i, j \in DOMAIN ret.scan :
    (/\ IsScan
     /\ Len(ret.scan) = 2
     /\ ~ret.scan[i].match
     /\ ret.scan[j].match
     /\ ret.scan[i].rank > ret.scan[j].rank)
      => /\ ret.err = NoErr
         /\ ret.found = ret.scan[j].stub
         /\ ret.similar = NilStub

\* What the not-found distinction says of every find and findBy, but for
\* the StubNotFound case: unknown service, known service with unknown
\* method, and no internal error of the storage.
NotFoundKinds ==
  (ret.op \in {"find", "findBy"})
    => /\ ~ServiceKnown => ret.err = ErrServiceNotFound
       /\ (ServiceKnown /\ ~PairKnown) => ret.err = ErrMethodNotFound
       /\ ret.err \notin {ErrLeftNotFound, ErrRightNotFound}

\* C3 as stated: find and findBy fail with ServiceNotFound for an unknown
\* service, with MethodNotFound for a known service and unknown method, and a
\* find on a known pair that yields neither a strict match nor a closest
\* candidate fails with StubNotFound; no internal error is returned.
C3_NotFoundDistinction_Original ==
  /\ NotFoundKinds
  /\ (IsFind /\ PairKnown /\ ret.found = NilStub /\ ret.similar = NilStub)
       => ret.err = ErrStubNotFound

\* C3 (amended): as above, but StubNotFound is the error of a find WITHOUT
\* explicit identifier on a known pair that yields neither result; a find
\* with an explicit identifier that is not stored fails on a known pair with
\* ServiceNotFound.
C3_NotFoundDistinction ==
  /\ NotFoundKinds
  /\ (IsScan /\ PairKnown /\ ret.found = NilStub /\ ret.similar = NilStub)
       => ret.err = ErrStubNotFound
  /\ (IsFind /\ ~IsScan /\ PairKnown /\ ret.found = NilStub)
       => ret.err = ErrServiceNotFound

\* A find without explicit identifier failed on a known pair whose stubs all
\* score zero.
C3_Witness ==
  /\ IsScan
  /\ PairKnown
  /\ Len(ret.scan) > 0
  /\ ret.err = ErrStubNotFound

\* used() and unused() as sets of identifiers, now and after the step.
UsedIds == IdsOf(used(stubUsed, storage))
UnusedIds == IdsOf(unused(stubUsed, storage))
UsedIdsNext == IdsOf(used(stubUsed', storage'))
UnusedIdsNext == IdsOf(unused(stubUsed', storage'))

\* The step is a find that returns a strict match to a non-internal query.
StrictHitNext ==
  ret'.op = "find" /\ ret'.found # NilStub /\ ~ret'.query.internal

\* C4: a stub find returns as the strict match to a non-internal query (on
\* either branch) is in used() and not in unused() when find returns, and
\* stays so over every later step that is neither a clear nor a del of it.
C4_UsageTracking ==
  [][/\ StrictHitNext
          => (ret'.found.id \in UsedIdsNext /\ ret'.found.id \notin UnusedIdsNext)
     /\ \A id \in Ids :
          (/\ id \in UsedIds
           /\ id \notin UnusedIds
           /\ ret'.op # "clear"
           /\ ~(ret'.op = "del" /\ id \in Range(ret'.keys)))
            => (id \in UsedIdsNext /\ id \notin UnusedIdsNext)]_vars

\* A non-internal find without explicit identifier returned a strict match
\* that used() lists, next to a stub that is still unused.
C4_Witness ==
  /\ IsScan
  /\ ~ret.query.internal
  /\ ret.found # NilStub
  /\ ret.found.id \in UsedIds
  /\ UnusedIds # {}

\* C5: a find whose query is internal, with or without explicit identifier,
\* succeeding or failing, leaves the usage set and used() as they were.
C5_InternalNeverMarks ==
  [][(ret'.op = "find" /\ ret'.query.internal)
       => /\ stubUsed' = stubUsed
          /\ used(stubUsed', storage') = used(stubUsed, storage)]_vars

\* An internal find returned a strict match that is not marked as used.
C5_Witness ==
  /\ IsFind
  /\ ret.query.internal
  /\ ret.found # NilStub
  /\ ret.found.id \notin stubUsed

\* C6: a find that returns no error returns a Result with exactly one of the
\* strict match and the closest candidate; a find that returns an error
\* returns no Result.
C6_ResultExclusivity ==
  IsFind =>
    /\ ret.err = NoErr
         => (ret.hasResult /\ ((ret.found # NilStub) # (ret.similar # NilStub)))
    /\ ret.err # NoErr
         => (~ret.hasResult /\ ret.found = NilStub /\ ret.similar = NilStub)

\* A find returned a strict match although a candidate that does not match
\* scored higher.
C6_Witness ==
  /\ IsScan
  /\ ret.err = NoErr
  /\ ret.found # NilStub
  /\ \E i, j \in DOMAIN ret.scan :
       /\ ~ret.scan[i].match
       /\ ret.scan[j].stub = ret.found
       /\ ret.scan[i].rank > ret.scan[j].rank

\* The position of the first candidate with the maximum score.
FirstMax(scan) ==
  CHOOSE i \in DOMAIN scan :
    /\ \A j \in DOMAIN scan : scan[j].rank <= scan[i].rank
    /\ \A j \in DOMAIN scan : j < i => scan[j].rank < scan[i].rank

\* C7: when every stub of the bucket does not match and scores above zero,
\* find succeeds without strict match, and its closest candidate is the
\* first stub of the enumeration that has the maximum score.
C7_SimilarOnly ==
  (/\ IsScan
   /\ Len(ret.scan) > 0
   /\ \A i \in DOMAIN ret.scan : ~ret.scan[i].match /\ ret.scan[i].rank > 0)
    => /\ ret.err = NoErr
       /\ ret.found = NilStub
       /\ ret.similar = ret.scan[FirstMax(ret.scan)].stub

\* Two stubs that do not match tie for the maximum and the first is returned.
C7_Witness ==
  /\ IsScan
  /\ Len(ret.scan) = 2
  /\ \A i \in DOMAIN ret.scan : ~ret.scan[i].match /\ ret.scan[i].rank > 0
  /\ ret.scan[1].rank = ret.scan[2].rank
  /\ ret.similar = ret.scan[1].stub

\* C8: when clear returns, all(), used() and unused() are empty, and findBy
\* and find fail with ServiceNotFound for every pair, query and enumeration.
C8_ClearResets ==
  (ret.op = "clear")
    => /\ all(storage) = {}
       /\ used(stubUsed, storage) = {}
       /\ unused(stubUsed, storage) = {}
       /\ \A s \in Services, m \in Methods : findBy(storage, s, m).err = ErrServiceNotFound
       /\ \A q \in Query : \A cands \in Candidates(storage, q) :
            LET r == find(storage, stubUsed, q, cands)
            IN r.err = ErrServiceNotFound /\ ~r.hasResult

\* clear discarded every identifier there is.
C8_Witness ==
  /\ ret.op = "clear"
  /\ ret.out = Ids

\* C9: in every state, used() and unused() are disjoint and together are
\* all(); used() reports no identifier that is absent from the storage.
C9_UsagePartition ==
  /\ used(stubUsed, storage) \cap unused(stubUsed, storage) = {}
  /\ used(stubUsed, storage) \cup unused(stubUsed, storage) = all(storage)
  /\ UsedIds \cap UnusedIds = {}
  /\ UsedIds \cup UnusedIds = IdsOf(all(storage))
  /\ \A id \in UsedIds : findByID(storage, id) # NilStub

\* The usage set holds an identifier that was deleted since, and a stored
\* stub is unused.
C9_Witness ==
  /\ \E id \in stubUsed : findByID(storage, id) = NilStub
  /\ UnusedIds # {}

\* C10: the usage set changes in two ways only: a find that returns a strict
\* match to a non-internal query adds that stub's identifier, and clear
\* empties it; every other call leaves it as it is.
C10_UsageSetFrame ==
  [][IF ret'.op = "clear" THEN stubUsed' = {}
     ELSE IF StrictHitNext THEN stubUsed' = stubUsed \cup {ret'.found.id}
     ELSE stubUsed' = stubUsed]_vars

\* A non-internal find returned only a closest candidate, which is not
\* marked, while another stub is.
C10_Witness ==
  /\ IsFind
  /\ ~ret.query.internal
  /\ ret.similar # NilStub
  /\ ret.similar.id \notin stubUsed
  /\ stubUsed # {}

\* Some stub of storage st is filed under service s / under the pair (s, m).
KnownService(st, s) == \E stub \in all(st) : stub.service = s
KnownPair(st, s, m) == \E stub \in all(st) : stub.service = s /\ stub.method = m

\* The step is a find with explicit identifier.
FindByIdNext == ret'.op = "find" /\ ret'.query.id # NoId

\* C11: a find with an explicit identifier that is not stored, on a pair that
\* exists, fails with ServiceNotFound and leaves the usage set as it was.
C11_AbsentIdentifier ==
  [][(/\ FindByIdNext
      /\ KnownPair(storage, ret'.query.service, ret'.query.method)
      /\ findByID(storage, ret'.query.id) = NilStub)
       => /\ ret'.err = ErrServiceNotFound
          /\ ~ret'.hasResult
          /\ stubUsed' = stubUsed]_vars

\* A find with an explicit identifier that is not stored failed with
\* ServiceNotFound on a pair that exists, while another stub is marked.
C11_Witness ==
  /\ IsFind
  /\ ret.query.id # NoId
  /\ PairKnown
  /\ findByID(storage, ret.query.id) = NilStub
  /\ ret.err = ErrServiceNotFound
  /\ stubUsed # {}

\* C19: a find with explicit identifier on a pair that does not exist fails
\* with ServiceNotFound when its service holds no stub and with
\* MethodNotFound when it does, also when a stub with that identifier is
\* stored under other coordinates, and leaves the usage set as it was.
C19_CoordinatesFirst ==
  [][(/\ FindByIdNext
      /\ ~KnownPair(storage, ret'.query.service, ret'.query.method))
       => /\ ret'.err = (IF KnownService(storage, ret'.query.service)
                         THEN ErrMethodNotFound ELSE ErrServiceNotFound)
          /\ ~ret'.hasResult
          /\ ret'.found = NilStub
          /\ stubUsed' = stubUsed]_vars

\* A non-internal find named a stub that is stored, under coordinates that
\* do not exist, and failed with MethodNotFound without marking it.
C19_Witness ==
  /\ IsFind
  /\ ret.query.id # NoId
  /\ ~ret.query.internal
  /\ ~PairKnown
  /\ findByID(storage, ret.query.id) # NilStub
  /\ ret.err = ErrMethodNotFound
  /\ ret.query.id \notin stubUsed

\* C16 as stated: whenever find returns a strict match, on either branch, the
\* stub's service and method are those of the query.
C16_FoundUnderQueryPair_Original ==
  (IsFind /\ ret.found # NilStub)
    => (ret.found.service = ret.query.service /\ ret.found.method = ret.query.method)

\* C16 (amended): a strict match returned by a find without explicit
\* identifier is filed under the query's service and method; a strict match
\* returned by a find with explicit identifier is the stub stored under that
\* identifier, whatever its coordinates, and the query's pair exists.
C16_FoundUnderQueryPair ==
  /\ (IsScan /\ ret.found # NilStub)
       => (ret.found.service = ret.query.service /\ ret.found.method = ret.query.method)
  /\ (IsFind /\ ~IsScan /\ ret.found # NilStub)
       => (ret.found = findByID(storage, ret.query.id) /\ PairKnown)

\* A find with explicit identifier returned a stub of another service, and
\* a find without could have returned a stub of the query's pair.
C16_Witness ==
  /\ IsFind
  /\ ret.query.id # NoId
  /\ ret.found # NilStub
  /\ ret.found.service # ret.query.service
  /\ PairKnown

\* The position of the first candidate that has the maximum score among the
\* candidates that match.
FirstMaxMatch(scan) ==
  CHOOSE i \in DOMAIN scan :
    /\ scan[i].match
    /\ \A j \in DOMAIN scan : scan[j].match => scan[j].rank <= scan[i].rank
    /\ \A j \in DOMAIN scan : (scan[j].match /\ j < i) => scan[j].rank < scan[i].rank

\* C20: when more than one candidate of the bucket strictly matches, find
\* returns the first of the matching candidates that have the maximum score
\* among them, whatever the scores of the candidates that do not match.
C20_BestStrictMatch ==
  (/\ IsScan
   /\ \E i, j \in DOMAIN ret.scan : i # j /\ ret.scan[i].match /\ ret.scan[j].match)
    => /\ ret.err = NoErr
       /\ ret.found = ret.scan[FirstMaxMatch(ret.scan)].stub
       /\ ret.similar = NilStub

\* The pairs (service, method) whose bucket in storage st holds id.
BucketsOf(st, id) ==
  {p \in Services \X Methods :
     /\ p[1] \in DOMAIN st.tree
     /\ p[2] \in DOMAIN st.tree[p[1]]
     /\ id \in st.tree[p[1]][p[2]]}

\* The flat map and the buckets of storage st hold the same identifiers,
\* each in the one bucket of the coordinates of its stub.
Bijection(st) ==
  /\ \A id \in DOMAIN st.items :
       /\ st.items[id].id = id
       /\ BucketsOf(st, id) = {<<st.items[id].service, st.items[id].method>>}
  /\ \A s \in DOMAIN st.tree : \A m \in DOMAIN st.tree[s] :
       st.tree[s][m] \subseteq DOMAIN st.items
  /\ DOMAIN st.tree \subseteq Services
  /\ \A s \in DOMAIN st.tree : DOMAIN st.tree[s] \subseteq Methods

\* The last stub of an argument list of upsert that has identifier id.
LastValue(values, id) ==
  values[CHOOSE i \in DOMAIN values :
           values[i].id = id /\ \A j \in DOMAIN values : values[j].id = id => j <= i]

\* C13: after every call the flat map and the buckets are in bijection; each
\* stub an upsert stored is in the bucket of the coordinates it was last
\* upserted with and in no other; all() has no two stubs with one identifier
\* and holds the identifiers for which findByID returns a stub.
C13_IndexBijection ==
  [][/\ Bijection(storage')
     /\ (ret'.op = "upsert") =>
          \A id \in Range(ret'.keys) :
            LET v == LastValue(ret'.values, id)
            IN /\ findByID(storage', id) = v
               /\ BucketsOf(storage', id) = {<<v.service, v.method>>}
     /\ Cardinality(IdsOf(all(storage'))) = Cardinality(all(storage'))
     /\ IdsOf(all(storage')) = {id \in Ids : findByID(storage', id) # NilStub}]_vars

\* One upsert moved a stub to other coordinates, next to a stub that stays
\* in the bucket it left.
C13_Witness ==
  /\ ret.op = "upsert"
  /\ \E d \in ret.dropped :
       /\ findByID(storage, d.id) # NilStub
       /\ findByID(storage, d.id) # d
       /\ KnownPair(storage, d.service, d.method)

\* What findBy and every find give for the pair (s, m) in storage st with
\* usage set u is the error e.
PairFailsWith(st, u, s, m, e) ==
  /\ findBy(st, s, m).err = e
  /\ \A q \in Query :
       (q.service = s /\ q.method = m)
         => \A cands \in Candidates(st, q) : find(st, u, q, cands).err = e

\* C14: when a del or an upsert takes the last stub out of a bucket, findBy
\* and find on that pair fail with MethodNotFound if the service still holds
\* a stub and with ServiceNotFound if not; when it takes the last stub out
\* of a service, they fail with ServiceNotFound on every pair of the service;
\* no pair is reported as existing with an empty bucket.
C14_PruningObservable ==
  [][(ret'.op \in {"del", "upsert"}) =>
       \A s \in Services :
         /\ \A m \in Methods :
              /\ (KnownPair(storage, s, m) /\ ~KnownPair(storage', s, m))
                   => PairFailsWith(storage', stubUsed', s, m,
                                    IF KnownService(storage', s)
                                    THEN ErrMethodNotFound ELSE ErrServiceNotFound)
              /\ (KnownService(storage, s) /\ ~KnownService(storage', s))
                   => PairFailsWith(storage', stubUsed', s, m, ErrServiceNotFound)
              /\ (findBy(storage', s, m).err = NoErr) => findBy(storage', s, m).stubs # {}]_vars

\* A del took the last stub out of a bucket of a service that still holds a
\* stub under its other method.
C14_Witness ==
  /\ ret.op = "del"
  /\ \E d \in ret.dropped :
       /\ ~KnownPair(storage, d.service, d.method)
       /\ KnownService(storage, d.service)

\* -------------------------------------------------------------- goroutines
\* Several goroutines call into one searcher.  A call is a sequence of steps:
\* each acquisition of a lock is a step of its own, and what a goroutine does
\* while it holds a lock is one step that ends with the release.  The
\* arguments of a call are drawn at the step that first reads them.
\* The stubs goroutines pass to upsert when any identifier is open to each of
\* them: one stub per identifier, all in one bucket.
ConcStub == {v \in Stub : v.service = "s1" /\ v.method = "m1"}

\* What the loop of search iterates over when goroutines interleave: every
\* order of the bucket and every verdict of match, all scores being equal.
ConcCandidates(st, q) ==
  LET S == findBy(st, q.service, q.method).stubs
  IN {[i \in 1 .. Cardinality(S) |-> [stub |-> p[i], rank |-> MaxRank, match |-> mt[p[i]]]] :
        p \in Perms(S), mt \in [S -> BOOLEAN]}

At(t, p) == th[t].pc = p
Goto(t, p) == th' = [th EXCEPT ![t].pc = p]

\* The query of the find goroutine t is in, as far as mark reads it.
QueryOf(t) == [NoQuery EXCEPT !.internal = th[t].internal]

\* A goroutine calls one of the operations ops.
Operations == {"upsert", "del", "find", "clear", "used", "unused"}
Call(t, ops) ==
  /\ At(t, "idle")
  /\ \E p \in ops : Goto(t, p)
  /\ UNCHANGED <<storage, stubUsed, ret, mu, imu, fresh, marked, last>>

\* The steps that wait for the lock of the storage, and the step each leads to.
IndexWaits == {"upsert", "del", "find", "find_id", "clear_ix", "used_ix", "unused_len", "unused_all"}
Locked(p) ==
  CASE p = "upsert" -> "upsert_do"
    [] p = "del" -> "del_do"
    [] p = "find" -> "find_do"
    [] p = "find_id" -> "find_id_do"
    [] p = "clear_ix" -> "clear_do"
    [] p = "used_ix" -> "used_do"
    [] p = "unused_len" -> "unused_len_do"
    [] p = "unused_all" -> "unused_do"

\* A storage operation begins: the goroutine takes the storage's lock.
IndexLock(t) ==
  /\ th[t].pc \in IndexWaits
  /\ imu = NoThread
  /\ imu' = t
  /\ Goto(t, Locked(th[t].pc))
  /\ UNCHANGED <<storage, stubUsed, ret, mu, fresh, marked, last>>

UpsertDo(t, V, track) ==
  /\ At(t, "upsert_do")
  /\ \E v \in V :
       /\ storage' = storage_upsert(storage, <<v>>)
       /\ last' = IF track = "content" THEN [last EXCEPT ![v.id] = v] ELSE last
  /\ imu' = NoThread
  /\ th' = [th EXCEPT ![t] = Idle]
  /\ UNCHANGED <<stubUsed, ret, mu, fresh, marked>>

DelDo(t, V, track) ==
  /\ At(t, "del_do")
  /\ \E id \in IdsOf(V) :
       /\ storage' = storage_del(storage, <<id>>)
       /\ last' = IF track = "content" THEN [last EXCEPT ![id] = NilStub] ELSE last
  /\ imu' = NoThread
  /\ th' = [th EXCEPT ![t] = Idle]
  /\ UNCHANGED <<stubUsed, ret, mu, fresh, marked>>

\* What a find does once it has its strict match, or has none.
AfterMatch(t, found, internal, err, track) ==
  /\ th' = [th EXCEPT ![t] =
              IF found # NilStub
              THEN [Idle EXCEPT !.pc = "mark", !.found = found, !.internal = internal]
              ELSE [Idle EXCEPT !.pc = "find_ret", !.err = err]]
  /\ fresh' = IF track = "usage" /\ found # NilStub /\ ~internal
              THEN fresh \cup {found.id} ELSE fresh

\* find without an identifier: search reads the bucket and ranks it.
FindScan(t, V, track) ==
  /\ At(t, "find_do")
  /\ \E v \in V, internal \in BOOLEAN :
       LET query == [service |-> v.service, method |-> v.method, id |-> NoId,
                     internal |-> internal]
       IN \E cands \in ConcCandidates(storage, query) :
            LET r == search(storage, {}, query, cands)
            IN AfterMatch(t, r.found, internal, r.err, track)
  /\ imu' = NoThread
  /\ UNCHANGED <<storage, stubUsed, ret, mu, marked, last>>

\* find with an identifier, first storage operation: posByN.
FindPos(t, V) ==
  /\ At(t, "find_do")
  /\ \E v \in V :
       LET err == storage_posByN(storage, v.service, v.method)
       IN th' = [th EXCEPT ![t] =
                   IF err # NoErr THEN [Idle EXCEPT !.pc = "find_ret", !.err = wrap(err)]
                   ELSE [Idle EXCEPT !.pc = "find_id"]]
  /\ imu' = NoThread
  /\ UNCHANGED <<storage, stubUsed, ret, mu, fresh, marked, last>>

\* find with an identifier, second storage operation: findByID.
FindId(t, V, track) ==
  /\ At(t, "find_id_do")
  /\ \E id \in IdsOf(V), internal \in BOOLEAN :
       AfterMatch(t, findByID(storage, id), internal, ErrServiceNotFound, track)
  /\ imu' = NoThread
  /\ UNCHANGED <<storage, stubUsed, ret, mu, marked, last>>

\* mark of an internal query returns at once, without the lock.
MarkSkip(t) ==
  /\ At(t, "mark")
  /\ mark({}, QueryOf(t), th[t].found.id) = {}
  /\ Goto(t, "find_ret")
  /\ UNCHANGED <<storage, stubUsed, ret, mu, imu, fresh, marked, last>>

MarkLock(t) ==
  /\ At(t, "mark")
  /\ mark({}, QueryOf(t), th[t].found.id) # {}
  /\ CanLock(mu)
  /\ mu' = Lock(mu, t)
  /\ Goto(t, "mark_do")
  /\ UNCHANGED <<storage, stubUsed, ret, imu, fresh, marked, last>>

MarkDo(t) ==
  /\ At(t, "mark_do")
  /\ stubUsed' = mark(stubUsed, QueryOf(t), th[t].found.id)
  /\ marked' = IF th[t].internal THEN marked ELSE marked \cup {th[t].found.id}
  /\ mu' = Unlock(mu, t)
  /\ th' = [th EXCEPT ![t].pc = "find_ret",
                       ![t].late = th[t].found.id \notin DOMAIN storage.items]
  /\ UNCHANGED <<storage, ret, imu, fresh, last>>

ClearLock(t) ==
  /\ At(t, "clear")
  /\ CanLock(mu)
  /\ mu' = Lock(mu, t)
  /\ Goto(t, "clear_reset")
  /\ UNCHANGED <<storage, stubUsed, ret, imu, fresh, marked, last>>

ClearReset(t) ==
  /\ At(t, "clear_reset")
  /\ stubUsed' = clear(stubUsed, storage).stubUsed
  /\ marked' = {}
  /\ Goto(t, "clear_ix")
  /\ UNCHANGED <<storage, ret, mu, imu, fresh, last>>

ClearDo(t) ==
  /\ At(t, "clear_do")
  /\ storage' = clear(stubUsed, storage).storage
  /\ imu' = NoThread
  /\ mu' = Unlock(mu, t)
  /\ fresh' = {}
  /\ th' = [th EXCEPT ![t] = Idle]
  /\ UNCHANGED <<stubUsed, ret, marked, last>>

\* used and unused take the read lock; unused reads the storage twice.
ReadLock(t) ==
  /\ th[t].pc \in {"used", "unused"}
  /\ CanRLock(mu)
  /\ mu' = RLock(mu, t)
  /\ Goto(t, IF At(t, "used") THEN "used_ix" ELSE "unused_len")
  /\ UNCHANGED <<storage, stubUsed, ret, imu, fresh, marked, last>>

UsedDo(t) ==
  /\ At(t, "used_do")
  /\ th' = [th EXCEPT ![t] = [Idle EXCEPT !.pc = "used_ret",
                                          !.out = IdsOf(used(stubUsed, storage))]]
  /\ imu' = NoThread
  /\ mu' = RUnlock(mu, t)
  /\ UNCHANGED <<storage, stubUsed, ret, fresh, marked, last>>

UnusedLen(t) ==
  /\ At(t, "unused_len_do")
  /\ imu' = NoThread
  /\ Goto(t, "unused_all")
  /\ UNCHANGED <<storage, stubUsed, ret, mu, fresh, marked, last>>

UnusedDo(t) ==
  /\ At(t, "unused_do")
  /\ th' = [th EXCEPT ![t] = [Idle EXCEPT !.pc = "unused_ret",
                                          !.out = IdsOf(unused(stubUsed, storage))]]
  /\ imu' = NoThread
  /\ mu' = RUnlock(mu, t)
  /\ UNCHANGED <<storage, stubUsed, ret, fresh, marked, last>>

\* The caller takes what find, used or unused returned.
Returned(t) ==
  /\ th[t].pc \in {"find_ret", "used_ret", "unused_ret"}
  /\ th' = [th EXCEPT ![t] = Idle]
  /\ UNCHANGED <<storage, stubUsed, ret, mu, imu, fresh, marked, last>>

\* Every step of goroutine t inside an upsert, a del or a find.  V is the set
\* of stubs it passes to upsert; it passes their identifiers to del and to
\* find, and their coordinates to find.  track names the history that is
\* kept: "usage" for fresh, "content" for last.
Mutate(t, V, track) ==
  \/ IndexLock(t)
  \/ UpsertDo(t, V, track)
  \/ DelDo(t, V, track)
  \/ FindScan(t, V, track)
  \/ FindPos(t, V)
  \/ FindId(t, V, track)
  \/ MarkSkip(t)
  \/ MarkLock(t)
  \/ MarkDo(t)
  \/ Returned(t)

\* Every step of goroutine t inside a clear, a used or an unused.
Report(t) ==
  \/ ClearLock(t)
  \/ ClearReset(t)
  \/ ClearDo(t)
  \/ ReadLock(t)
  \/ UsedDo(t)
  \/ UnusedLen(t)
  \/ UnusedDo(t)

Continue(t, V, track) == Mutate(t, V, track) \/ Report(t)

NextC == \E t \in Threads : Call(t, Operations) \/ Continue(t, ConcStub, "none")

\* Goroutines calling any operation on any identifier.
SpecC == Init /\ [][NextC]_allvars

\* The same under a fair scheduler and starvation-free locks: a goroutine
\* whose next step is possible again and again takes it.
FairSpecC == SpecC /\ \A t \in Threads : SF_allvars(Continue(t, ConcStub, "none"))

NextU == \E t \in Threads : Call(t, Operations) \/ Continue(t, ConcStub, "usage")

\* The same goroutines, with the history of strict matches kept in fresh.
SpecU == Init /\ [][NextU]_allvars

\* The identifiers goroutine t works on when the goroutines keep to disjoint
\* identifiers: the odd ones for the first, the even ones for the second;
\* and the stubs it upserts, in either service.
Own(t) == {id \in Ids : (id % 2 = 1) <=> (t = "g1")}
OwnStub(t) == {v \in Stub : v.id \in Own(t) /\ v.method = "m1"}

NextD == \E t \in Threads : Call(t, {"upsert", "del", "find"}) \/ Mutate(t, OwnStub(t), "content")

\* Goroutines calling upsert, del and find, each on its own identifiers.
SpecD == Init /\ [][NextD]_allvars
FairSpecD == SpecD /\ \A t \in Threads : SF_allvars(Mutate(t, OwnStub(t), "content"))

\* ------------------------------------------------- claims about goroutines
\* Goroutine t is inside a call.
InCall(t) == th[t].pc # "idle"

\* Goroutine t acquires searcher.mu in this step, for writing or for reading.
AcquiresMu(t) == (mu.w # t /\ mu'.w = t) \/ (t \notin mu.r /\ t \in mu'.r)

\* Goroutine t holds searcher.mu.
HoldsMu(t) == mu.w = t \/ t \in mu.r

\* searcher.mu is never taken by a goroutine that holds the storage's lock,
\* and the storage's lock is taken either with searcher.mu held (clear, used,
\* unused) or with no lock held (upsert, del, the reads of find).
LockOrder ==
  \A t \in Threads :
    /\ AcquiresMu(t) => imu # t
    /\ (imu # t /\ imu' = t) =>
         (HoldsMu(t) <=> th[t].pc \in {"clear_ix", "used_ix", "unused_len", "unused_all"})

\* C18: the two locks are taken in the order searcher.mu then storage lock,
\* or one at a time, never the storage lock first; and under a fair
\* scheduler every call of upsert, del, find, clear, used or unused that
\* goroutines make concurrently returns.
C18_DeadlockFreedom ==
  /\ [][LockOrder]_allvars
  /\ \A t \in Threads : InCall(t) ~> ~InCall(t)

\* A clear holds both locks while a find that has matched waits to mark.
C18_Witness ==
  \E t, u \in Threads :
    /\ th[t].pc = "clear_do" /\ mu.w = t /\ imu = t
    /\ th[u].pc = "mark" /\ ~th[u].internal

\* Goroutine t has the strict match of its find and has not marked it yet.
Matched(t) == th[t].pc \in {"mark", "mark_do"}

\* What a find keeps from its match to its return, whatever the other
\* goroutines do meanwhile, and what a used reports.
MatchThenMark ==
  \A t \in Threads :
    /\ Matched(t) =>
         /\ th'[t].pc \in {"mark", "mark_do", "find_ret"}
         /\ th'[t].found = th[t].found
         /\ th'[t].err = NoErr
    /\ (th[t].pc = "used_do" /\ th'[t].pc = "used_ret") =>
         th'[t].out \subseteq DOMAIN storage.items

\* C12: the match and the mark of a find are separate critical sections; when
\* a del or a clear of the matched stub comes between them the find still
\* returns its strict match without error, at worst stubUsed holds an
\* identifier that is no longer stored while the storage stays consistent,
\* and used never reports a stub that was not stored when it read the storage.
C12_MatchThenMark ==
  /\ [][MatchThenMark]_allvars
  /\ [](Bijection(storage) /\ stubUsed = marked)
  /\ \A t \in Threads : Matched(t) ~> (th[t].pc = "find_ret" /\ th[t].err = NoErr)

\* A find returns a strict match that was deleted before it was marked: its
\* identifier is in stubUsed and not in the storage.
C12_Witness ==
  \E t \in Threads :
    /\ th[t].pc = "find_ret" /\ th[t].late /\ th[t].err = NoErr
    /\ th[t].found.id \in stubUsed \ DOMAIN storage.items

\* No goroutine is inside a clear.
NoClearRunning == \A t \in Threads : th[t].pc \notin {"clear", "clear_reset", "clear_ix", "clear_do"}

\* C17 as stated: every stub used() reports was the strict match of a
\* non-internal find whose match came after the last clear returned; a find
\* that matched before the clear never makes a stub, re-upserted or not,
\* reported as used after the clear.
C17_MatchedAfterClear_Original == UsedIds \subseteq fresh

\* C17: every stub used() reports was the strict match of a non-internal find
\* whose mark came after the last clear emptied stubUsed.  The match of that
\* find may have come before the clear: its mark then waits for the clear to
\* release searcher.mu, and a stub upserted afterwards under the same
\* identifier is reported as used.
C17_MarkedAfterClear == UsedIds \subseteq marked

\* A used() that returns after a clear reports a stub no find has matched
\* since: the find matched before the clear and marked after it, and the
\* identifier was upserted again.
C17_Witness ==
  /\ NoClearRunning
  /\ \E id \in UsedIds : id \notin fresh /\ id \in marked
  /\ \E t \in Threads : th[t].pc = "used_ret" /\ th[t].out = UsedIds

\* What a sequential run of the storage operations performed so far, in the
\* order of their steps, leaves stored.
Intended == {last[id] : id \in Ids} \ {NilStub}

\* C15: when goroutines call upsert, del and find (with its mark) on disjoint
\* identifiers, every call returns, every storage operation takes effect as
\* one step, and what all() holds is what the operations performed leave when
\* run one after the other in an order that keeps each goroutine's own order.
C15_DisjointMutation ==
  /\ [](all(storage) = Intended /\ Bijection(storage))
  /\ \A t \in Threads : InCall(t) ~> ~InCall(t)

\* Both goroutines have stored a stub in the same bucket; one is inside a
\* storage operation while the other waits to start its own.
C15_Witness ==
  \E t, u \in Threads :
    /\ t # u
    /\ \E i \in Own(t), j \in Own(u) :
         /\ last[i] # NilStub /\ last[j] # NilStub
         /\ last[i].service = last[j].service
    /\ th[t].pc \in {"upsert_do", "del_do"} /\ imu = t
    /\ th[u].pc \in {"upsert", "del"}

====
